---- MODULE Spec2Model ----
(***************************************************************************)
(* Model of wiserHeatingAPI: the wiserHub facade (wiserHub.py) over the    *)
(* CustomSession transport (request_mod.py).                               *)
(*                                                                         *)
(* One wiserHub object.  The Python call stack of the running thread is    *)
(* the variable stack; every action is the code between two calls or       *)
(* network requests of the frame on top of it.  The hub is the             *)
(* environment: each request gets a nondeterministically chosen answer.    *)
(* An exception unwinds the whole stack, because no modelled frame has a   *)
(* handler around a call.  Spec is the object used by one thread; SpecRace *)
(* adds a second thread, which other holds while it is not running.        *)
(*                                                                         *)
(* Data conventions.  A JSON object is a record; a key that is absent (or  *)
(* null, which dict.get cannot tell apart) is a field the record lacks.    *)
(* (the field nulls lists the keys that are present with the value null).  *)
(* Python None / JSON null for a whole document is the record None.  A     *)
(* Celsius value is [deg, tenth] = deg + tenth/10; hub temperatures are    *)
(* integers in tenths of a degree.                                         *)
(***************************************************************************)
EXTENDS Integers, Sequences, FiniteSets, TLC

VARIABLES
    wiserHubData,       \* self.wiserHubData: None or the domain document
    wiserNetworkData,   \* self.wiserNetworkData
    wiserScheduleData,  \* self.wiserScheduleData
    device2roomMap,     \* self.device2roomMap: device id -> {roomId, roomName}
    stack,              \* the call stack, innermost frame last
    call,               \* the public call being (or last) executed
    outcome,            \* how that call ended
    sent,               \* the requests handed to the session during that call
    warnings,           \* _LOGGER.warning records emitted during that call
    refreshes,          \* refreshData activations started during that call
    entry,              \* at the start of that call: was the domain cache
                        \* loaded, and the device index
    other               \* a second thread using the same object: its stack,
                        \* call, outcome, sent, warnings, refreshes and
                        \* entry while it is not the one running

vars == <<wiserHubData, wiserNetworkData, wiserScheduleData, device2roomMap,
          stack, call, outcome, sent, warnings, refreshes, entry, other>>

cache == <<wiserHubData, wiserNetworkData, wiserScheduleData, device2roomMap>>

-----------------------------------------------------------------------------
(* Bounds *)

\* Depth at which the interpreter gives up with RecursionError (CPython's
\* limit is 1000 frames; the shape of the run is the same at any depth).
MaxFrames == 7

-----------------------------------------------------------------------------
(* Program constants *)

TEMP_MINIMUM == 5
TEMP_MAXIMUM == 30
TEMP_OFF == -20
DEFAULT_BOOST_TEMP == 20
DEFAULT_BOOST_TIME == 30

None == [none |-> TRUE]

Has(obj, key) == key \in DOMAIN obj

\* key is present in obj with the value null
IsNull(obj, key) == Has(obj, "nulls") /\ key \in obj.nulls

-----------------------------------------------------------------------------
(* The hub's documents *)

Heating1 == << [id |-> 11, Name |-> "weekday"],
              [id |-> 12, Name |-> "kitchen"] >>
Heating2 == << [id |-> 11, Name |-> "holiday"] >>
HeatingStale == << [id |-> 11, Name |-> "stale"] >>

ScheduleBodies ==
    { None,
      [Heating |-> Heating1],
      [Heating |-> Heating2],
      [OnOff |-> <<>>] }

NetworkBodies ==
    { None,
      [Station |-> [MdnsHostname |-> "WiserHeat01", MacAddress |-> "AA:BB"]] }

RoomStat1 == [id |-> 1, Name |-> "Lounge", RoomStatId |-> "A",
              ScheduleId |-> 11, ScheduledSetPoint |-> 30]
RoomBare1 == [id |-> 1, Name |-> "Lounge",
              ScheduleId |-> 11, ScheduledSetPoint |-> 50]
RoomValves2 == [id |-> 2, Name |-> "Kitchen", SmartValveIds |-> <<"B", "C">>,
                ScheduleId |-> 12,
                ScheduledSetPoint |-> 195]
RoomBare3 == [id |-> 3, Name |-> "Hall"]
RoomHot2 == [id |-> 2, Name |-> "Kitchen", ScheduledSetPoint |-> 350]

\* DomainFull is the rooms list of the specification's example; DomainMoved
\* is a later state of the same hub (the room stat A is gone, and the
\* document carries its own Schedule); DomainNoRooms has no Room key.
\* Device, room-stat and smart-plug entries.  Where the code reads a key
\* with a subscript (RoomStat), a key that is present with the value null
\* differs from an absent key: the keys that are present and null are
\* listed in the field nulls of the record.
DomainFull ==
    [Room |-> <<RoomStat1, RoomValves2, RoomBare3>>,
     Device |-> << [id |-> "A", ProductType |-> "RoomStat"],
                   [id |-> "B", ProductType |-> "iTRV"] >>,
     RoomStat |-> << [id |-> "A", SetPoint |-> 200] >>,
     SmartPlug |-> << [id |-> 7, Mode |-> "Auto", OutputState |-> "On"] >>,
     HotWater |-> << [id |-> 2, WaterHeatingState |-> "Off"] >>,
     HeatingChannel |-> << [id |-> 1, HeatingRelayState |-> "On"] >>]
DomainMoved == [Room |-> <<RoomBare1, RoomHot2>>, Schedule |-> HeatingStale,
                Device |-> << [id |-> "B", ProductType |-> "iTRV"] >>]
DomainNoRooms == [System |-> [PairedDevices |-> 0], nulls |-> {"RoomStat"}]

DomainBodies == { None, DomainFull, DomainMoved, DomainNoRooms }

RoomIds == {1, 2, 3, 9}

-----------------------------------------------------------------------------
(* Transport: request_mod.CustomSession *)

StatusCodes == {200, 204, 400, 401, 403, 404, 405, 500}
StatusForcelist == {500, 502, 503, 504}
RetryMethods == {"HEAD", "GET", "PUT", "DELETE", "OPTIONS", "TRACE"}
Faults == {"Timeout", "ConnectionError"}

\* What the hub (or the network) finally does with one request: a fault, or
\* a response with a status and a parsed JSON body.
Wire(fault, status, body) == [fault |-> fault, status |-> status, body |-> body]

\* every answer the request layer tells apart
AllWires(bodies) ==
    { Wire("none", 200, b) : b \in bodies }
      \cup { Wire("none", s, None) : s \in StatusCodes \ {200} }
      \cup { Wire(f, 0, None) : f \in Faults }

\* the answers drawn for the requests of the longer operations: success
\* with each body, one error status, each fault
FailureWires ==
    { Wire("none", 404, None) } \cup { Wire(f, 0, None) : f \in Faults }
WiresFor(bodies) == { Wire("none", 200, b) : b \in bodies } \cup FailureWires

\* for a PATCH also a success status other than 200
PatchWires == WiresFor({None}) \cup { Wire("none", 204, None) }

\* r.raise_for_status(), the session's response hook.
RaiseForStatus(status) == status >= 400 /\ status < 600

\* self._http.get / self._http.patch: the adapter retries a status of the
\* force list for the methods urllib3 retries (PATCH is not one) and, the
\* retries used up, raises RetryError; a connection failure or timeout
\* raises; otherwise the response hook raises HTTPError for 4xx/5xx.
HttpCall(method, wire) ==
    IF wire.fault \in Faults
    THEN [kind |-> "raise", exc |-> wire.fault]
    ELSE IF wire.status \in StatusForcelist /\ method \in RetryMethods
    THEN [kind |-> "raise", exc |-> "RetryError"]
    ELSE IF RaiseForStatus(wire.status)
    THEN [kind |-> "raise", exc |-> "HTTPError"]
    ELSE [kind |-> "response", status |-> wire.status, body |-> wire.body]

-----------------------------------------------------------------------------
(* Request layer: wiserHub._makeGetRequest / _makePatchRequest *)

\* Whether the local variable resp is bound when an except clause runs:
\* "resp = self._http.get(...)" binds it only if the call returns.
RespBound(r) == r.kind = "response"

\* Python truth value of an integer operand of "or".
Truthy(n) == n # 0

\* except requests.HTTPError of _makeGetRequest: reads resp.status_code.
GetHTTPErrorClass(r, status) ==
    IF ~RespBound(r) THEN "UnboundLocalError"
    ELSE IF status = 401 THEN "WiserHubAuthenticationException"
    ELSE IF status = 404 THEN "WiserHubRequestException"
    ELSE "WiserRESTException"

\* except requests.HTTPError of _makePatchRequest; its second test is
\* "resp.status_code == 404 or 405".
PatchHTTPErrorClass(r, status) ==
    IF ~RespBound(r) THEN "UnboundLocalError"
    ELSE IF status = 401 THEN "WiserHubAuthenticationException"
    ELSE IF status = 404 \/ Truthy(405) THEN "WiserHubRequestException"
    ELSE "WiserRESTException"

\* _makeGetRequest without its second except clause: the session's
\* exception reaches the caller as it is
makeGetRequestUncaught(wire) == HttpCall("GET", wire)

makeGetRequest(wire) ==
    LET r == HttpCall("GET", wire) IN
    IF r.kind = "response" THEN r
    ELSE IF r.exc = "HTTPError"
    THEN [kind |-> "raise", exc |-> GetHTTPErrorClass(r, wire.status)]
    ELSE IF r.exc \in Faults
    THEN [kind |-> "raise", exc |-> "WiserHubTimeoutException"]
    ELSE r

makePatchRequest(wire) ==
    LET r == HttpCall("PATCH", wire) IN
    IF r.kind = "response" THEN r
    ELSE IF r.exc = "HTTPError"
    THEN [kind |-> "raise", exc |-> PatchHTTPErrorClass(r, wire.status)]
    ELSE IF r.exc \in Faults
    THEN [kind |-> "raise", exc |-> "WiserHubTimeoutException"]
    ELSE r

-----------------------------------------------------------------------------
(* Temperatures *)

Celsius(deg, tenth) == [deg |-> deg, tenth |-> tenth]

\* a < b on Celsius values
CLess(a, b) == a.deg < b.deg \/ (a.deg = b.deg /\ a.tenth < b.tenth)

\* int(temp * 10)
toWiserTemp(temp) == temp.deg * 10 + temp.tenth

\* round(temp / 10, 1)
fromWiserTemp(temp) == Celsius(temp \div 10, temp % 10)

-----------------------------------------------------------------------------
(* The call stack *)

Top == stack[Len(stack)]
At(fn, pc) == stack # <<>> /\ Top.fn = fn /\ Top.pc = pc
Caller == SubSeq(stack, 1, Len(stack) - 1)
Goto(pc) == [stack EXCEPT ![Len(stack)].pc = pc]
Frame(fn) == [fn |-> fn, pc |-> "start"]

Running == [state |-> "running", exc |-> "none"]
Returned == [state |-> "returned", exc |-> "none"]
Raised(exc) == [state |-> "raised", exc |-> exc]

\* raise: nothing on the stack catches, the public call ends with exc.
Raise(exc) == stack' = <<>> /\ outcome' = Raised(exc)

\* return from the top frame
Return ==
    /\ stack' = Caller
    /\ outcome' = IF Len(stack) = 1 THEN Returned ELSE outcome

\* return v: the caller's frame holds it in ret.  A value is <<v>>, the
\* value None is <<>>.
ReturnValue(v) ==
    /\ stack' = IF Len(stack) = 1 THEN <<>>
                ELSE [Caller EXCEPT ![Len(stack) - 1] = [ret |-> v] @@ @]
    /\ outcome' = IF Len(stack) = 1 THEN Returned ELSE outcome

\* call a method: the caller resumes at retpc when the callee returns.
Invoke(frame, retpc) ==
    IF Len(stack) < MaxFrames
    THEN stack' = Append(Goto(retpc), frame) /\ UNCHANGED outcome
    ELSE Raise("RecursionError")

\* a thread that has not called the object yet
Idle == [stack |-> <<>>, call |-> [op |-> "run"], outcome |-> Returned,
         sent |-> <<>>, warnings |-> <<>>, refreshes |-> 0,
         entry |-> [loaded |-> FALSE, map |-> [d \in {} |-> None],
                    cache |-> <<None, None, None, [d \in {} |-> None]>>]]

Snapshot == [loaded |-> (wiserHubData # None), map |-> device2roomMap,
             cache |-> cache]

\* a public method is called on the idle object
Begin(c, frame) ==
    /\ stack = <<>>
    /\ call' = c
    /\ outcome' = Running
    /\ sent' = <<>>
    /\ warnings' = <<>>
    /\ refreshes' = IF frame.fn = "refreshData" THEN 1 ELSE 0
    /\ entry' = Snapshot
    /\ stack' = <<frame>>
    /\ UNCHANGED <<cache, other>>

\* a request as logged in sent; ok: it was answered with status 200;
\* fault: the connection failure or timeout it ended in, if any
Request(method, url, body, wire) ==
    [method |-> method, url |-> url, body |-> body,
     ok |-> (wire.fault = "none" /\ wire.status = 200),
     fault |-> wire.fault]

-----------------------------------------------------------------------------
(* State cache and refresh coordinator *)

EmptyMap == [d \in {} |-> None]

RoomInfo(room) == [roomId |-> room.id, roomName |-> room.Name]

\* for valveId in smartValves: self.device2roomMap[valveId] = {...}
RECURSIVE IndexValves(_, _, _)
IndexValves(map, valves, info) ==
    IF valves = <<>> THEN map
    ELSE IndexValves((Head(valves) :> info) @@ map, Tail(valves), info)

\* the loop body without its smart-valve half
IndexRoomStatOnly(map, room) ==
    IF Has(room, "RoomStatId")
    THEN (room.RoomStatId :> RoomInfo(room)) @@ map
    ELSE map

\* the body of "for room in self.getRooms()" up to the warning
IndexRoom(map, room) ==
    LET withStat == IF Has(room, "RoomStatId")
                    THEN (room.RoomStatId :> RoomInfo(room)) @@ map
                    ELSE map
    IN  IF Has(room, "SmartValveIds")
        THEN IndexValves(withStat, room.SmartValveIds, RoomInfo(room))
        ELSE withStat

RECURSIVE IndexRooms(_, _)
IndexRooms(map, rooms) ==
    IF rooms = <<>> THEN map
    ELSE IndexRooms(IndexRoom(map, Head(rooms)), Tail(rooms))

\* "if roomStatId is None and smartValves is None"
RoomIsEmpty(room) == ~Has(room, "RoomStatId") /\ ~Has(room, "SmartValveIds")

\* the warnings of the loop, one record per warning, in order
RECURSIVE RoomWarnings(_)
RoomWarnings(rooms) ==
    IF rooms = <<>> THEN <<>>
    ELSE (IF RoomIsEmpty(Head(rooms))
          THEN << [msg |-> "no devices", room |-> Head(rooms).Name] >>
          ELSE <<>>) \o RoomWarnings(Tail(rooms))

NoRoomsWarning == [msg |-> "no rooms", room |-> ""]

\* the merge done with dict.setdefault: a Schedule the document carries stays
WithScheduleKeep(doc, heating) ==
    [k \in DOMAIN doc \cup {"Schedule"} |->
        IF k \in DOMAIN doc THEN doc[k] ELSE heating]

\* refreshData without its lines 254-255
WithoutSchedule(doc, heating) == doc

\* tempData['Schedule'] = heating
WithSchedule(doc, heating) ==
    [k \in DOMAIN doc \cup {"Schedule"} |->
        IF k = "Schedule" THEN heating ELSE doc[k]]

\* the schedule fetched on every refresh, like the domain document
ScheduleDataAlways == TRUE

\* "if self.wiserScheduleData is None" / "if self.wiserNetworkData is None"
NeedScheduleData == wiserScheduleData = None
NeedNetworkData == wiserNetworkData = None

\* One GET through _makeGetRequest is handed to the session.
Get(url, wire) == sent' = Append(sent, Request("GET", url, None, wire))

\* refreshData, lines 216-217
RefreshSchedule ==
    /\ At("refreshData", "start")
    /\ IF NeedScheduleData
       THEN \E wire \in WiresFor(ScheduleBodies) :
              LET r == makeGetRequest(wire) IN
                /\ Get(<<"schedules/">>, wire)
                /\ IF r.kind = "response"
                   THEN /\ wiserScheduleData' = r.body
                        /\ stack' = Goto("network")
                        /\ UNCHANGED outcome
                   ELSE /\ Raise(r.exc)
                        /\ UNCHANGED wiserScheduleData
       ELSE /\ stack' = Goto("network")
            /\ UNCHANGED <<wiserScheduleData, outcome, sent>>
    /\ UNCHANGED <<wiserHubData, wiserNetworkData, device2roomMap, call,
                   warnings, refreshes, entry, other>>

\* refreshData, lines 219-220
RefreshNetwork ==
    /\ At("refreshData", "network")
    /\ IF NeedNetworkData
       THEN \E wire \in WiresFor(NetworkBodies) :
              LET r == makeGetRequest(wire) IN
                /\ Get(<<"network/">>, wire)
                /\ IF r.kind = "response"
                   THEN /\ wiserNetworkData' = r.body
                        /\ stack' = Goto("domain")
                        /\ UNCHANGED outcome
                   ELSE /\ Raise(r.exc)
                        /\ UNCHANGED wiserNetworkData
       ELSE /\ stack' = Goto("domain")
            /\ UNCHANGED <<wiserNetworkData, outcome, sent>>
    /\ UNCHANGED <<wiserHubData, wiserScheduleData, device2roomMap, call,
                   warnings, refreshes, entry, other>>

\* refreshData, line 222
RefreshDomain ==
    /\ At("refreshData", "domain")
    /\ \E wire \in WiresFor(DomainBodies) :
         LET r == makeGetRequest(wire) IN
           /\ Get(<<"domain/">>, wire)
           /\ IF r.kind = "response"
              THEN /\ wiserHubData' = r.body
                   /\ stack' = Goto("getRooms")
                   /\ UNCHANGED outcome
              ELSE /\ Raise(r.exc)
                   /\ UNCHANGED wiserHubData
    /\ UNCHANGED <<wiserNetworkData, wiserScheduleData, device2roomMap, call,
                   warnings, refreshes, entry, other>>

\* refreshData, line 225: the call self.getRooms()
RefreshGetRooms ==
    /\ At("refreshData", "getRooms")
    /\ Invoke(Frame("getRooms"), "index")
    /\ UNCHANGED <<cache, call, sent, warnings, refreshes, entry, other>>

\* refreshData, lines 225-226 and 250-251, after getRooms() has returned:
\* "if self.getRooms() is not None" and the call self.getRooms() of the
\* for statement
RefreshIndex ==
    /\ At("refreshData", "index")
    /\ IF Top.ret # <<>>
       THEN /\ Invoke(Frame("getRooms"), "loop")
            /\ UNCHANGED warnings
       ELSE /\ warnings' = Append(warnings, NoRoomsWarning)
            /\ stack' = Goto("merge")
            /\ UNCHANGED outcome
    /\ UNCHANGED <<cache, call, sent, refreshes, entry, other>>

\* refreshData, lines 226-249: the loop over the list the second getRooms()
\* returned
RefreshLoop ==
    /\ At("refreshData", "loop")
    /\ IF Top.ret # <<>>
       THEN /\ device2roomMap' = IndexRooms(device2roomMap, Top.ret[1])
            /\ warnings' = warnings \o RoomWarnings(Top.ret[1])
            /\ stack' = Goto("merge")
            /\ UNCHANGED outcome
       ELSE /\ Raise("TypeError")
            /\ UNCHANGED <<device2roomMap, warnings>>
    /\ UNCHANGED <<wiserHubData, wiserNetworkData, wiserScheduleData, call,
                   sent, refreshes, entry, other>>

\* refreshData, lines 254-257
RefreshMerge ==
    /\ At("refreshData", "merge")
    /\ IF wiserScheduleData = None
       THEN Raise("TypeError") /\ UNCHANGED wiserHubData
       ELSE IF ~Has(wiserScheduleData, "Heating")
       THEN Raise("KeyError") /\ UNCHANGED wiserHubData
       ELSE IF wiserHubData = None
       THEN Raise("TypeError") /\ UNCHANGED wiserHubData
       ELSE /\ wiserHubData' = WithSchedule(wiserHubData, wiserScheduleData.Heating)
            /\ Return
    /\ UNCHANGED <<wiserNetworkData, wiserScheduleData, device2roomMap, call,
                   sent, warnings, refreshes, entry, other>>

\* checkHubData, lines 177-180 when it is entered
CheckHubData ==
    /\ At("checkHubData", "start")
    /\ IF wiserHubData = None
       THEN /\ Invoke(Frame("refreshData"), "after")
            /\ refreshes' = IF Len(stack) < MaxFrames
                            THEN refreshes + 1 ELSE refreshes
       ELSE Return /\ UNCHANGED refreshes
    /\ UNCHANGED <<cache, call, sent, warnings, entry, other>>

\* checkHubData, lines 179-180 after refreshData has returned
CheckHubDataAfter ==
    /\ At("checkHubData", "after")
    /\ IF wiserHubData = None THEN Raise("WiserHubDataNull") ELSE Return
    /\ UNCHANGED <<cache, call, sent, warnings, refreshes, entry, other>>

\* getRooms, line 285
GetRooms ==
    /\ At("getRooms", "start")
    /\ Invoke(Frame("checkHubData"), "ret")
    /\ UNCHANGED <<cache, call, sent, warnings, refreshes, entry, other>>

\* getRooms, line 286
GetRoomsRet ==
    /\ At("getRooms", "ret")
    /\ IF wiserHubData = None THEN Raise("AttributeError")
       ELSE IF Has(wiserHubData, "Room") THEN ReturnValue(<<wiserHubData.Room>>)
       ELSE ReturnValue(<<>>)
    /\ UNCHANGED <<cache, call, sent, warnings, refreshes, entry, other>>

-----------------------------------------------------------------------------
(* Accessors *)

RECURSIVE FindById(_, _)
\* "for x in list: if x.get('id') == id: return x"; <<>> when none matches
FindById(list, id) ==
    IF list = <<>> THEN <<>>
    ELSE IF Has(Head(list), "id") /\ Head(list).id = id THEN <<Head(list)>>
    ELSE FindById(Tail(list), id)

\* getRoom, line 295
GetRoom ==
    /\ At("getRoom", "start")
    /\ Invoke(Frame("checkHubData"), "lookup")
    /\ UNCHANGED <<cache, call, sent, warnings, refreshes, entry, other>>

\* getRoom, lines 296-302
GetRoomLookup ==
    /\ At("getRoom", "lookup")
    /\ IF wiserHubData = None THEN Raise("AttributeError")
       ELSE IF ~Has(wiserHubData, "Room") THEN Raise("WiserNoRoomsFound")
       ELSE IF FindById(wiserHubData.Room, Top.roomId) # <<>>
       THEN ReturnValue(FindById(wiserHubData.Room, Top.roomId))
       ELSE Raise("WiserNotFound")
    /\ UNCHANGED <<cache, call, sent, warnings, refreshes, entry, other>>

DeviceIds == {"A", "B", "Z"}

\* an accessor that returns at once, without "self.checkHubData()"
EnsureSkipped(fn, retpc) ==
    /\ At(fn, "start")
    /\ stack' = Goto(retpc)
    /\ UNCHANGED <<cache, call, outcome, sent, warnings, refreshes, entry, other>>

\* "self.checkHubData()", the first statement of an accessor
Ensure(fn, retpc) ==
    /\ At(fn, "start")
    /\ Invoke(Frame("checkHubData"), retpc)
    /\ UNCHANGED <<cache, call, sent, warnings, refreshes, entry, other>>

\* the accessors that are "self.checkHubData()" and one return statement
KeyReaders ==
    {"getHubData", "getSystem", "getHotwater", "getHeatingChannels",
     "getDevices", "getSmartPlugs"}

\* getHubData, getSystem, getHotwater, getHeatingChannels, getDevices,
\* getSmartPlugs: the first line
ReadKeyEnsure == \E fn \in KeyReaders : Ensure(fn, "ret")

\* "return self.wiserHubData.get(key)"; getHubData returns the document
\* itself, getHotwater reads inside try/except and returns None on an
\* error, getSmartPlugs reads through getHubData(), which finds the cache
\* loaded
ReadKeyRet ==
    \E fn \in KeyReaders :
      /\ At(fn, "ret")
      /\ IF wiserHubData = None /\ fn \notin {"getHubData", "getHotwater"}
         THEN Raise("AttributeError")
         ELSE Return
      /\ UNCHANGED <<cache, call, sent, warnings, refreshes, entry, other>>

\* getDevice, line 351
GetDevice == Ensure("getDevice", "lookup")

\* getDevice, lines 353-359
GetDeviceLookup ==
    /\ At("getDevice", "lookup")
    /\ IF wiserHubData = None THEN Raise("AttributeError")
       ELSE IF ~Has(wiserHubData, "Device") THEN Raise("WiserNoRoomsFound")
       ELSE IF FindById(wiserHubData.Device, call.deviceId) # <<>>
       THEN Return
       ELSE Raise("WiserNotFound")
    /\ UNCHANGED <<cache, call, sent, warnings, refreshes, entry, other>>

\* getDeviceRoom, line 368
GetDeviceRoom == Ensure("getDeviceRoom", "map")

\* getDeviceRoom, lines 372-373
GetDeviceRoomMap ==
    /\ At("getDeviceRoom", "map")
    /\ IF device2roomMap = EmptyMap
       THEN /\ Invoke(Frame("refreshData"), "ret")
            /\ refreshes' = refreshes + 1
       ELSE /\ stack' = Goto("ret")
            /\ UNCHANGED <<outcome, refreshes>>
    /\ UNCHANGED <<cache, call, sent, warnings, entry, other>>

\* getDeviceRoom, line 375
GetDeviceRoomRet ==
    /\ At("getDeviceRoom", "ret")
    /\ IF call.deviceId \in DOMAIN device2roomMap
       THEN Return
       ELSE Raise("KeyError")
    /\ UNCHANGED <<cache, call, sent, warnings, refreshes, entry, other>>

\* getRoomStatData, line 480
GetRoomStatData == Ensure("getRoomStatData", "lookup")

\* getRoomStatData, lines 482-494
GetRoomStatDataLookup ==
    /\ At("getRoomStatData", "lookup")
    /\ IF wiserHubData = None THEN Raise("TypeError")
       ELSE IF IsNull(wiserHubData, "RoomStat") THEN Raise("WiserNotFound")
       ELSE IF ~Has(wiserHubData, "RoomStat") THEN Raise("KeyError")
       ELSE IF FindById(wiserHubData.RoomStat, call.deviceId) # <<>>
       THEN Return
       ELSE Raise("WiserNotFound")
    /\ UNCHANGED <<cache, call, sent, warnings, refreshes, entry, other>>

\* getRoomSchedule, line 503
GetRoomSchedule == Ensure("getRoomSchedule", "room1")

\* getRoomSchedule, line 505: the call self.getRoom(roomId)
GetRoomScheduleRoom1 ==
    /\ At("getRoomSchedule", "room1")
    /\ Invoke([fn |-> "getRoom", pc |-> "start", roomId |-> Top.roomId],
              "room2")
    /\ UNCHANGED <<cache, call, sent, warnings, refreshes, entry, other>>

\* getRoomSchedule, line 508: the call self.getRoom(roomId)
GetRoomScheduleRoom2 ==
    /\ At("getRoomSchedule", "room2")
    /\ Invoke([fn |-> "getRoom", pc |-> "start", roomId |-> Top.roomId],
              "find")
    /\ UNCHANGED <<cache, call, sent, warnings, refreshes, entry, other>>

\* getRoomSchedule, lines 508-515
GetRoomScheduleFind ==
    /\ At("getRoomSchedule", "find")
    /\ LET room == Top.ret[1] IN
       IF ~Has(room, "ScheduleId") THEN Raise("WiserNotFound")
       ELSE IF wiserHubData = None THEN Raise("AttributeError")
       ELSE IF ~Has(wiserHubData, "Schedule") THEN Raise("TypeError")
       ELSE IF FindById(wiserHubData.Schedule, room.ScheduleId) # <<>>
       THEN ReturnValue(FindById(wiserHubData.Schedule, room.ScheduleId))
       ELSE Raise("WiserNotFound")
    /\ UNCHANGED <<cache, call, sent, warnings, refreshes, entry, other>>

PlugReaders == {"getSmartPlug", "getSmartPlugState", "getSmartPlugMode"}

\* getSmartPlug, getSmartPlugState, getSmartPlugMode: their first line
GetSmartPlug == \E fn \in PlugReaders : Ensure(fn, "lookup")

\* "if self.getHubData().get('SmartPlug') is not None: for plug in ...: if
\* plug.get('id') == smartPlugId"; getHubData() finds the cache loaded
FindPlug(smartPlugId) ==
    IF Has(wiserHubData, "SmartPlug")
    THEN FindById(wiserHubData.SmartPlug, smartPlugId)
    ELSE <<>>

\* the lookup telling an absent list from an unknown id, as getRoom does
GetSmartPlugLookupDistinct ==
    \E fn \in PlugReaders :
      /\ At(fn, "lookup")
      /\ IF ~Has(wiserHubData, "SmartPlug") THEN Raise("WiserNoRoomsFound")
         ELSE IF FindPlug(call.smartPlugId) # <<>> THEN Return
         ELSE Raise("WiserNotFound")
      /\ UNCHANGED <<cache, call, sent, warnings, refreshes, entry, other>>

\* getSmartPlug, lines 806-811; getSmartPlugState, lines 815-828 (a plug
\* without OutputState is reported as not found); getSmartPlugMode, lines
\* 865-870
GetSmartPlugLookup ==
    \E fn \in PlugReaders :
      /\ At(fn, "lookup")
      /\ IF wiserHubData = None THEN Raise("AttributeError")
         ELSE IF FindPlug(call.smartPlugId) = <<>> THEN Raise("WiserNotFound")
         ELSE IF fn = "getSmartPlugState"
                 /\ ~Has(FindPlug(call.smartPlugId)[1], "OutputState")
         THEN Raise("WiserNotFound")
         ELSE Return
      /\ UNCHANGED <<cache, call, sent, warnings, refreshes, entry, other>>

\* the relay status read from the cache as it is
GetHeatingRelayStatusDirect ==
    /\ At("getHeatingRelayStatus", "start")
    /\ stack' = Goto("loop")
    /\ UNCHANGED <<cache, call, outcome, sent, warnings, refreshes, entry, other>>

\* getHeatingRelayStatus, lines 382-385: the call self.getHeatingChannels()
GetHeatingRelayStatus ==
    /\ At("getHeatingRelayStatus", "start")
    /\ Invoke(Frame("getHeatingChannels"), "loop")
    /\ UNCHANGED <<cache, call, sent, warnings, refreshes, entry, other>>

\* getHeatingRelayStatus, lines 386-389: the loop over what was returned
GetHeatingRelayStatusLoop ==
    /\ At("getHeatingRelayStatus", "loop")
    /\ IF ~Has(wiserHubData, "HeatingChannel")
       THEN Raise("TypeError")
       ELSE Return
    /\ UNCHANGED <<cache, call, sent, warnings, refreshes, entry, other>>

-----------------------------------------------------------------------------
(* Mutators *)

Modes == {"auto", "AUTO", "boost", "Boost", "Manual", "OFF", "eco"}

\* str.lower()
Lower(mode) ==
    CASE mode \in {"auto", "AUTO"} -> "auto"
      [] mode \in {"boost", "Boost"} -> "boost"
      [] mode = "Manual" -> "manual"
      [] mode = "OFF" -> "off"
      [] OTHER -> mode

BoostTemps == {Celsius(4, 0), Celsius(DEFAULT_BOOST_TEMP, 0), Celsius(30, 0)}

RoomUrl(roomId) == <<"domain/Room/", roomId>>

CancelBoostPostData ==
    [RequestOverride |-> [Type |-> "None", DurationMinutes |-> 0,
                          SetPoint |-> 0, Originator |-> "App"]]

AutoPatchData == [Mode |-> "Auto"]

BoostPatchData(boost_temp, boost_temp_time) ==
    [RequestOverride |-> [Type |-> "Manual",
                          DurationMinutes |-> boost_temp_time,
                          SetPoint |-> toWiserTemp(boost_temp),
                          Originator |-> "App"]]

ManualPatchData(setTemp) ==
    [Mode |-> "Manual",
     RequestOverride |-> [Type |-> "Manual", SetPoint |-> toWiserTemp(setTemp)]]

\* the scheduled temperature taken as it is
ClampNever(setTemp) == setTemp

\* "setTemp if setTemp >= TEMP_MINIMUM else TEMP_MINIMUM"
ClampToMinimum(setTemp) ==
    IF ~CLess(setTemp, Celsius(TEMP_MINIMUM, 0))
    THEN setTemp ELSE Celsius(TEMP_MINIMUM, 0)

\* the test without lower(): "Boost" would be taken for a non-boost mode
CancelsBoostCaseSensitive(mode) == mode # "boost"

\* "if mode.lower() != 'boost'": the cancel-boost request is due
CancelsBoost(mode) == Lower(mode) # "boost"

\* "if response.status_code != 200"
PatchFailed(r) == r.status # 200

\* setRoomMode, lines 708-759, up to the first call or request
SetRoomMode ==
    /\ At("setRoomMode", "start")
    /\ LET m == Lower(call.mode) IN
       CASE m = "auto" ->
              /\ stack' = [Goto("cancel") EXCEPT ![Len(stack)].patchData =
                                                     AutoPatchData]
              /\ UNCHANGED outcome
         [] m = "boost" ->
              IF CLess(call.boost_temp, Celsius(TEMP_MINIMUM, 0))
                 \/ CLess(Celsius(TEMP_MAXIMUM, 0), call.boost_temp)
              THEN Raise("ValueError")
              ELSE /\ stack' = [Goto("cancel") EXCEPT ![Len(stack)].patchData =
                            BoostPatchData(call.boost_temp, DEFAULT_BOOST_TIME)]
                   /\ UNCHANGED outcome
         [] m = "manual" ->
              Invoke([fn |-> "getRoom", pc |-> "start", roomId |-> call.roomId],
                     "manual")
         [] m = "off" ->
              /\ stack' = [Goto("cancel") EXCEPT ![Len(stack)].patchData =
                            ManualPatchData(Celsius(TEMP_OFF, 0))]
              /\ UNCHANGED outcome
         [] OTHER -> Raise("ValueError")
    /\ UNCHANGED <<cache, call, sent, warnings, refreshes, entry, other>>

\* setRoomMode, lines 733-744, after getRoom has returned the room
SetRoomModeManual ==
    /\ At("setRoomMode", "manual")
    /\ LET room == FindById(wiserHubData.Room, call.roomId)[1] IN
       IF ~Has(room, "ScheduledSetPoint")
       THEN Raise("TypeError")
       ELSE /\ stack' = [Goto("cancel") EXCEPT ![Len(stack)].patchData =
                 ManualPatchData(ClampToMinimum(
                     fromWiserTemp(room.ScheduledSetPoint)))]
            /\ UNCHANGED outcome
    /\ UNCHANGED <<cache, call, sent, warnings, refreshes, entry, other>>

\* setRoomMode, lines 762-780
SetRoomModeCancel ==
    /\ At("setRoomMode", "cancel")
    /\ IF CancelsBoost(call.mode)
       THEN \E wire \in PatchWires :
              LET r == HttpCall("PATCH", wire) IN
              /\ sent' = Append(sent, Request("PATCH", RoomUrl(call.roomId),
                                              CancelBoostPostData, wire))
              /\ IF r.kind = "raise" THEN Raise(r.exc)
                 ELSE IF PatchFailed(r) THEN Raise("WiserRESTException")
                 ELSE stack' = Goto("set") /\ UNCHANGED outcome
       ELSE /\ stack' = Goto("set")
            /\ UNCHANGED <<outcome, sent>>
    /\ UNCHANGED <<cache, call, warnings, refreshes, entry, other>>

\* setRoomMode, lines 783-798
SetRoomModeSet ==
    /\ At("setRoomMode", "set")
    /\ \E wire \in PatchWires :
         LET r == HttpCall("PATCH", wire) IN
         /\ sent' = Append(sent, Request("PATCH", RoomUrl(call.roomId),
                                         Top.patchData, wire))
         /\ IF r.kind = "raise" THEN Raise(r.exc)
            ELSE IF PatchFailed(r) THEN Raise("WiserRESTException")
            ELSE Return
    /\ UNCHANGED <<cache, call, warnings, refreshes, entry, other>>

\* the range check with both bounds exclusive
checkTempRangeExclusive(temp) ==
    ~( /\ temp # Celsius(TEMP_OFF, 0)
       /\ ~( /\ CLess(Celsius(TEMP_MINIMUM, 0), temp)
             /\ CLess(temp, Celsius(TEMP_MAXIMUM, 0)) ) )

\* _checkTempRange
checkTempRange(temp) ==
    ~( /\ temp # Celsius(TEMP_OFF, 0)
       /\ ( \/ CLess(temp, Celsius(TEMP_MINIMUM, 0))
            \/ CLess(Celsius(TEMP_MAXIMUM, 0), temp) ) )

\* str.title()
Title(s) ==
    CASE s \in {"on", "On"} -> "On"
      [] s \in {"OFF", "Off"} -> "Off"
      [] s \in {"auto", "AUTO"} -> "Auto"
      [] s = "Manual" -> "Manual"
      [] s = "dim" -> "Dim"
      [] s = "eco" -> "Eco"
      [] OTHER -> s

Temperatures ==
    {Celsius(4, 9), Celsius(5, 0), Celsius(21, 5), Celsius(30, 0),
     Celsius(30, 1), Celsius(31, 0), Celsius(TEMP_OFF, 0),
     Celsius(TEMP_OFF, 1), Celsius(TEMP_OFF - 1, 9), Celsius(0, 0)}
HomeAwayModes == {"HOME", "AWAY", "home"}
HotwaterModes == {"on", "OFF", "AUTO", "eco"}
PlugIds == {7, 8}
PlugStates == {"on", "Off", "dim"}
PlugModes == {"auto", "Manual", "eco"}
Switches == {"EcoModeEnabled"}
ScheduleDatas == { [id |-> 11, Name |-> "copied"] }

\* "response = self._http.patch(url, json=patchData)" and the test of the
\* status that follows it in every mutator; failure[status] is what the
\* mutator raises under "if response.status_code != 200"
PatchAndCheck(url, patchData, failure) ==
    \E wire \in PatchWires :
      LET r == HttpCall("PATCH", wire) IN
      /\ sent' = Append(sent, Request("PATCH", url, patchData, wire))
      /\ IF r.kind = "raise" THEN Raise(r.exc)
         ELSE IF PatchFailed(r) THEN Raise(failure[r.status])
         ELSE Return

RESTFailure == [status \in StatusCodes |-> "WiserRESTException"]

\* setHomeAwayMode, line 648
HomeAwayFailure == [status \in StatusCodes |-> "ValueError"]

\* setSmartPlugState / setSmartPlugMode, "if response.status_code == 404"
PlugFailure ==
    [status \in StatusCodes |->
        IF status = 404 THEN "WiserNotFound" ELSE "WiserRESTException"]

RoomTemperaturePatchData(temperature) ==
    [RequestOverride |-> [Type |-> "Manual",
                          SetPoint |-> toWiserTemp(temperature)]]

\* the range check that lets every temperature through
TemperatureUnchecked(temperature) == TRUE

\* "if not (self._checkTempRange(temperature))" negated
TemperatureAllowed(temperature) == checkTempRange(temperature)

\* setRoomTemperature
SetRoomTemperature ==
    /\ At("setRoomTemperature", "start")
    /\ IF ~TemperatureAllowed(call.temperature)
       THEN Raise("ValueError") /\ UNCHANGED sent
       ELSE PatchAndCheck(RoomUrl(call.roomId),
                          RoomTemperaturePatchData(call.temperature),
                          RESTFailure)
    /\ UNCHANGED <<cache, call, warnings, refreshes, entry, other>>

HomeAwayPatchData(mode, temperature) ==
    IF mode = "AWAY"
    THEN [type |-> 2, setPoint |-> toWiserTemp(temperature)]
    ELSE [type |-> 0, setPoint |-> 0]

\* setHomeAwayMode
SetHomeAwayMode ==
    /\ At("setHomeAwayMode", "start")
    /\ IF call.mode \notin {"HOME", "AWAY"}
       THEN Raise("ValueError") /\ UNCHANGED sent
       ELSE IF call.mode = "AWAY"
               /\ (call.temperature = None
                     \/ ~TemperatureAllowed(call.temperature))
       THEN Raise("ValueError") /\ UNCHANGED sent
       ELSE PatchAndCheck(<<"System/RequestOverride">>,
                          HomeAwayPatchData(call.mode, call.temperature),
                          HomeAwayFailure)
    /\ UNCHANGED <<cache, call, warnings, refreshes, entry, other>>

\* setSystemSwitch
SetSystemSwitch ==
    /\ At("setSystemSwitch", "start")
    /\ PatchAndCheck(<<"System">>, [k \in {call.switch} |-> call.mode],
                     RESTFailure)
    /\ UNCHANGED <<cache, call, warnings, refreshes, entry, other>>

\* setSmartPlugState
SetSmartPlugState ==
    /\ At("setSmartPlugState", "start")
    /\ IF Title(call.smartPlugState) \notin {"On", "Off"}
       THEN Raise("ValueError") /\ UNCHANGED sent
       ELSE PatchAndCheck(<<"domain/SmartPlug/", call.smartPlugId>>,
                          [RequestOutput |-> Title(call.smartPlugState)],
                          PlugFailure)
    /\ UNCHANGED <<cache, call, warnings, refreshes, entry, other>>

\* setSmartPlugMode
SetSmartPlugMode ==
    /\ At("setSmartPlugMode", "start")
    /\ IF Title(call.smartPlugMode) \notin {"Auto", "Manual"}
       THEN Raise("ValueError") /\ UNCHANGED sent
       ELSE PatchAndCheck(<<"domain/SmartPlug/", call.smartPlugId>>,
                          [Mode |-> Title(call.smartPlugMode)],
                          PlugFailure)
    /\ UNCHANGED <<cache, call, warnings, refreshes, entry, other>>

DHWOnTemp == 1100
DHWOffTemp == -200

\* modeMapping with the set points of on and off exchanged
HotwaterPatchDataSwapped(mode) ==
    CASE mode = "on" ->
           [RequestOverride |-> [Type |-> "Manual", SetPoint |-> DHWOffTemp]]
      [] mode = "off" ->
           [RequestOverride |-> [Type |-> "Manual", SetPoint |-> DHWOnTemp]]
      [] mode = "auto" ->
           [RequestOverride |-> [Type |-> "None", Mode |-> "Auto"]]

\* modeMapping of setHotwaterMode
HotwaterPatchData(mode) ==
    CASE mode = "on" ->
           [RequestOverride |-> [Type |-> "Manual", SetPoint |-> DHWOnTemp]]
      [] mode = "off" ->
           [RequestOverride |-> [Type |-> "Manual", SetPoint |-> DHWOffTemp]]
      [] mode = "auto" ->
           [RequestOverride |-> [Type |-> "None", Mode |-> "Auto"]]

\* the control id looked up on every call, loaded cache or not
HotwaterAlwaysRefreshes == TRUE

\* "if self.wiserHubData is None" of setHotwaterMode
HotwaterNeedsRefresh == wiserHubData = None

\* setHotwaterMode, lines 412-429
SetHotwaterMode ==
    /\ At("setHotwaterMode", "start")
    /\ IF Lower(call.mode) \notin {"on", "off", "auto"}
       THEN Raise("ValueError") /\ UNCHANGED refreshes
       ELSE IF HotwaterNeedsRefresh
       THEN /\ Invoke(Frame("refreshData"), "patch")
            /\ refreshes' = refreshes + 1
       ELSE /\ stack' = Goto("patch")
            /\ UNCHANGED <<outcome, refreshes>>
    /\ UNCHANGED <<cache, call, sent, warnings, entry, other>>

\* setHotwaterMode, lines 430-447
SetHotwaterModePatch ==
    /\ At("setHotwaterMode", "patch")
    /\ IF ~Has(wiserHubData, "HotWater")
       THEN Raise("TypeError") /\ UNCHANGED sent
       ELSE IF wiserHubData.HotWater = <<>>
       THEN Raise("IndexError") /\ UNCHANGED sent
       ELSE PatchAndCheck(<<"HotWater/", wiserHubData.HotWater[1].id, "/">>,
                          HotwaterPatchData(Lower(call.mode)), RESTFailure)
    /\ UNCHANGED <<cache, call, warnings, refreshes, entry, other>>

\* setRoomSchedule, line 525: the call self.getRoom(roomId)
SetRoomSchedule ==
    /\ At("setRoomSchedule", "start")
    /\ Invoke([fn |-> "getRoom", pc |-> "start", roomId |-> Top.roomId],
              "patch")
    /\ UNCHANGED <<cache, call, sent, warnings, refreshes, entry, other>>

\* setRoomSchedule, lines 525-544, after getRoom has returned the room
SetRoomSchedulePatch ==
    /\ At("setRoomSchedule", "patch")
    /\ LET room == Top.ret[1] IN
       IF ~Has(room, "ScheduleId")
       THEN Raise("WiserNotFound") /\ UNCHANGED sent
       ELSE PatchAndCheck(<<"schedules/Heating/", room.ScheduleId>>,
                          Top.scheduleData, RESTFailure)
    /\ UNCHANGED <<cache, call, warnings, refreshes, entry, other>>

\* copyRoomSchedule, line 595: the call self.getRoomSchedule(fromRoomId)
CopyRoomSchedule ==
    /\ At("copyRoomSchedule", "start")
    /\ Invoke([fn |-> "getRoomSchedule", pc |-> "start",
               roomId |-> call.fromRoomId], "set")
    /\ UNCHANGED <<cache, call, sent, warnings, refreshes, entry, other>>

\* the copy written to the room the schedule was read from
CopyRoomScheduleSetToSource ==
    /\ At("copyRoomSchedule", "set")
    /\ Invoke([fn |-> "setRoomSchedule", pc |-> "start",
               roomId |-> call.fromRoomId, scheduleData |-> Top.ret[1]], "ret")
    /\ UNCHANGED <<cache, call, sent, warnings, refreshes, entry, other>>

\* copyRoomSchedule, lines 601-606; getRoomSchedule returns a schedule or
\* raises, so scheduleData is never None here
CopyRoomScheduleSet ==
    /\ At("copyRoomSchedule", "set")
    /\ Invoke([fn |-> "setRoomSchedule", pc |-> "start",
               roomId |-> call.toRoomId, scheduleData |-> Top.ret[1]], "ret")
    /\ UNCHANGED <<cache, call, sent, warnings, refreshes, entry, other>>

\* copyRoomSchedule, after setRoomSchedule has returned
CopyRoomScheduleRet ==
    /\ At("copyRoomSchedule", "ret")
    /\ Return
    /\ UNCHANGED <<cache, call, sent, warnings, refreshes, entry, other>>

-----------------------------------------------------------------------------
(* Public calls *)

CallRefreshData ==
    Begin([op |-> "refreshData"], Frame("refreshData"))

CallCheckHubData ==
    Begin([op |-> "checkHubData"], Frame("checkHubData"))

CallGetRooms ==
    Begin([op |-> "getRooms"], Frame("getRooms"))

CallGetRoom ==
    \E roomId \in RoomIds :
      Begin([op |-> "getRoom", roomId |-> roomId],
            [fn |-> "getRoom", pc |-> "start", roomId |-> roomId])

CallReadKey == \E fn \in KeyReaders : Begin([op |-> fn], Frame(fn))

CallGetDevice ==
    \E deviceId \in DeviceIds :
      Begin([op |-> "getDevice", deviceId |-> deviceId], Frame("getDevice"))

CallGetDeviceRoom ==
    \E deviceId \in DeviceIds :
      Begin([op |-> "getDeviceRoom", deviceId |-> deviceId],
            Frame("getDeviceRoom"))

CallGetRoomStatData ==
    \E deviceId \in DeviceIds :
      Begin([op |-> "getRoomStatData", deviceId |-> deviceId],
            Frame("getRoomStatData"))

CallGetRoomSchedule ==
    \E roomId \in RoomIds :
      Begin([op |-> "getRoomSchedule", roomId |-> roomId],
            [fn |-> "getRoomSchedule", pc |-> "start", roomId |-> roomId])

CallGetSmartPlug ==
    \E fn \in PlugReaders, smartPlugId \in PlugIds :
      Begin([op |-> fn, smartPlugId |-> smartPlugId], Frame(fn))

CallGetHeatingRelayStatus ==
    Begin([op |-> "getHeatingRelayStatus"], Frame("getHeatingRelayStatus"))

CallSetRoomMode ==
    \E roomId \in RoomIds, mode \in Modes, boost_temp \in BoostTemps :
      /\ Lower(mode) # "boost" => boost_temp = Celsius(DEFAULT_BOOST_TEMP, 0)
      /\ Begin([op |-> "setRoomMode", roomId |-> roomId, mode |-> mode,
                boost_temp |-> boost_temp],
               [fn |-> "setRoomMode", pc |-> "start", patchData |-> None])

CallSetRoomTemperature ==
    \E roomId \in {1, 9}, temperature \in Temperatures :
      Begin([op |-> "setRoomTemperature", roomId |-> roomId,
             temperature |-> temperature],
            Frame("setRoomTemperature"))

CallSetHomeAwayMode ==
    \E mode \in HomeAwayModes, temperature \in Temperatures \cup {None} :
      /\ mode # "AWAY" => temperature = Celsius(21, 5)
      /\ Begin([op |-> "setHomeAwayMode", mode |-> mode,
                temperature |-> temperature],
               Frame("setHomeAwayMode"))

CallSetSystemSwitch ==
    \E switch \in Switches, mode \in BOOLEAN :
      Begin([op |-> "setSystemSwitch", switch |-> switch, mode |-> mode],
            Frame("setSystemSwitch"))

CallSetSmartPlugState ==
    \E smartPlugId \in PlugIds, smartPlugState \in PlugStates :
      Begin([op |-> "setSmartPlugState", smartPlugId |-> smartPlugId,
             smartPlugState |-> smartPlugState],
            Frame("setSmartPlugState"))

CallSetSmartPlugMode ==
    \E smartPlugId \in PlugIds, smartPlugMode \in PlugModes :
      Begin([op |-> "setSmartPlugMode", smartPlugId |-> smartPlugId,
             smartPlugMode |-> smartPlugMode],
            Frame("setSmartPlugMode"))

CallSetHotwaterMode ==
    \E mode \in HotwaterModes :
      Begin([op |-> "setHotwaterMode", mode |-> mode],
            Frame("setHotwaterMode"))

CallSetRoomSchedule ==
    \E roomId \in RoomIds, scheduleData \in ScheduleDatas :
      Begin([op |-> "setRoomSchedule", roomId |-> roomId,
             scheduleData |-> scheduleData],
            [fn |-> "setRoomSchedule", pc |-> "start", roomId |-> roomId,
             scheduleData |-> scheduleData])

CallCopyRoomSchedule ==
    \E fromRoomId \in RoomIds, toRoomId \in {2, 3} :
      Begin([op |-> "copyRoomSchedule", fromRoomId |-> fromRoomId,
             toRoomId |-> toRoomId],
            Frame("copyRoomSchedule"))

\* _makeGetRequest(url) called on its own: one request, classified
CallMakeGetRequest ==
    /\ stack = <<>>
    /\ \E wire \in AllWires({DomainFull}) :
         LET r == makeGetRequest(wire) IN
         /\ call' = [op |-> "_makeGetRequest", wire |-> wire]
         /\ sent' = <<Request("GET", <<"domain/">>, None, wire)>>
         /\ outcome' = IF r.kind = "response" THEN Returned ELSE Raised(r.exc)
    /\ warnings' = <<>>
    /\ refreshes' = 0
    /\ entry' = Snapshot
    /\ UNCHANGED <<cache, stack, other>>

\* _makePatchRequest(url, data) called on its own
CallMakePatchRequest ==
    /\ stack = <<>>
    /\ \E wire \in AllWires({None}) :
         LET r == makePatchRequest(wire) IN
         /\ call' = [op |-> "_makePatchRequest", wire |-> wire]
         /\ sent' = <<Request("PATCH", RoomUrl(1), AutoPatchData, wire)>>
         /\ outcome' = IF r.kind = "response" THEN Returned ELSE Raised(r.exc)
    /\ warnings' = <<>>
    /\ refreshes' = 0
    /\ entry' = Snapshot
    /\ UNCHANGED <<cache, stack, other>>

-----------------------------------------------------------------------------
(* One request inside the session: CustomSession.request, the adapter and  *)
(* the Retry(total = RETRIES, status_forcelist = ...) object it was given. *)
(* Each transmission gets its own answer; sent is the list of them.        *)

RETRIES == 3
RETRY_AFTER_STATUS_CODES == {413, 429, 503}

\* what one transmission ends in: the fault ConnectionError (no connection,
\* nothing reached the hub), the fault Timeout (no answer in time), or a
\* response with a status, with or without a Retry-After header
Answer(fault, status, retryAfter) ==
    [fault |-> fault, status |-> status, retryAfter |-> retryAfter]

Answers ==
    { Answer(f, 0, FALSE) : f \in Faults }
      \cup { Answer("none", st, FALSE) : st \in {200, 404, 429, 500, 503} }
      \cup { Answer("none", 429, TRUE) }

\* a retry policy that does not look at the method
RetriedAnyMethod(method, a, total) ==
    \/ a.fault \in Faults
    \/ a.status \in StatusForcelist
    \/ total # 0 /\ a.retryAfter /\ a.status \in RETRY_AFTER_STATUS_CODES

\* Whether the Retry object has the request sent again: after a connection
\* error; after a read error or a response only for the methods it retries,
\* the response having a status of the force list or, while total is not
\* used up, a Retry-After header with 413, 429 or 503.
Retried(method, a, total) ==
    \/ a.fault = "ConnectionError"
    \/ /\ method \in RetryMethods
       /\ \/ a.fault = "Timeout"
          \/ a.status \in StatusForcelist
          \/ total # 0 /\ a.retryAfter /\ a.status \in RETRY_AFTER_STATUS_CODES

\* what the session raises once total is used up
Exhausted(a) == IF a.fault \in Faults THEN "ConnectionError" ELSE "RetryError"

\* self._http.get(...) / self._http.patch(...) is called
CallRequest ==
    \E method \in {"GET", "PATCH"} :
      Begin([op |-> "request", method |-> method],
            [fn |-> "send", pc |-> "urlopen", total |-> RETRIES])

\* one transmission and what the Retry object, then the response hook, make
\* of its answer
TransportSend ==
    /\ At("send", "urlopen")
    /\ \E a \in Answers :
         /\ sent' = Append(sent, a)
         /\ IF Retried(call.method, a, Top.total)
            THEN IF Top.total - 1 < 0
                 THEN Raise(Exhausted(a))
                 ELSE /\ stack' = [stack EXCEPT ![Len(stack)].total = @ - 1]
                      /\ UNCHANGED outcome
            ELSE IF a.fault \in Faults THEN Raise(a.fault)
            ELSE IF RaiseForStatus(a.status) THEN Raise("HTTPError")
            ELSE Return
    /\ UNCHANGED <<cache, call, warnings, refreshes, entry, other>>

-----------------------------------------------------------------------------
(* wiserHub.__init__ and the specification *)

(* The public update methods *)

Updaters == {"updateHubData", "updateScheduleData", "updateNetworkData"}

CallUpdateData == \E fn \in Updaters : Begin([op |-> fn], Frame(fn))

\* updateScheduleData, updateNetworkData, updateHubData called on their own:
\* one GET through _makeGetRequest, its parsed body assigned to the attribute
UpdateData ==
    \E fn \in Updaters :
      /\ At(fn, "start")
      /\ \E wire \in WiresFor(CASE fn = "updateScheduleData" -> ScheduleBodies
                                [] fn = "updateNetworkData" -> NetworkBodies
                                [] fn = "updateHubData" -> DomainBodies) :
           LET r == makeGetRequest(wire)
               url == CASE fn = "updateScheduleData" -> <<"schedules/">>
                        [] fn = "updateNetworkData" -> <<"network/">>
                        [] fn = "updateHubData" -> <<"domain/">>
               old == [updateScheduleData |-> wiserScheduleData,
                       updateNetworkData |-> wiserNetworkData,
                       updateHubData |-> wiserHubData]
               new == IF r.kind = "response"
                      THEN [old EXCEPT ![fn] = r.body]
                      ELSE old
           IN  /\ Get(url, wire)
               /\ wiserScheduleData' = new.updateScheduleData
               /\ wiserNetworkData' = new.updateNetworkData
               /\ wiserHubData' = new.updateHubData
               /\ IF r.kind = "response" THEN Return ELSE Raise(r.exc)
      /\ UNCHANGED <<device2roomMap, call, warnings, refreshes, entry, other>>

-----------------------------------------------------------------------------

Init ==
    /\ wiserHubData = None
    /\ wiserNetworkData = None
    /\ wiserScheduleData = None
    /\ device2roomMap = EmptyMap
    /\ stack = <<>>
    /\ call = [op |-> "__init__"]
    /\ outcome = Returned
    /\ sent = <<>>
    /\ warnings = <<>>
    /\ refreshes = 0
    /\ entry = [loaded |-> FALSE, map |-> EmptyMap,
                cache |-> <<None, None, None, EmptyMap>>]
    /\ other = Idle

Next ==
    \/ CallRefreshData
    \/ CallCheckHubData
    \/ CallGetRooms
    \/ CallGetRoom
    \/ CallSetRoomMode
    \/ CallMakeGetRequest
    \/ CallMakePatchRequest
    \/ RefreshSchedule
    \/ RefreshNetwork
    \/ RefreshDomain
    \/ RefreshGetRooms
    \/ RefreshIndex
    \/ RefreshLoop
    \/ RefreshMerge
    \/ CheckHubData
    \/ CheckHubDataAfter
    \/ GetRooms
    \/ GetRoomsRet
    \/ GetRoom
    \/ GetRoomLookup
    \/ SetRoomMode
    \/ SetRoomModeManual
    \/ SetRoomModeCancel
    \/ SetRoomModeSet
    \/ CallSetRoomTemperature
    \/ CallSetHomeAwayMode
    \/ CallSetSystemSwitch
    \/ CallSetSmartPlugState
    \/ CallSetSmartPlugMode
    \/ CallSetHotwaterMode
    \/ CallSetRoomSchedule
    \/ SetRoomTemperature
    \/ SetHomeAwayMode
    \/ SetSystemSwitch
    \/ SetSmartPlugState
    \/ SetSmartPlugMode
    \/ SetHotwaterMode
    \/ SetHotwaterModePatch
    \/ SetRoomSchedule
    \/ SetRoomSchedulePatch
    \/ CallCopyRoomSchedule
    \/ CopyRoomSchedule
    \/ CopyRoomScheduleSet
    \/ CopyRoomScheduleRet
    \/ GetDevice
    \/ GetDeviceLookup
    \/ GetDeviceRoom
    \/ GetDeviceRoomMap
    \/ GetDeviceRoomRet
    \/ GetRoomStatData
    \/ GetRoomStatDataLookup
    \/ GetRoomSchedule
    \/ GetRoomScheduleRoom1
    \/ GetRoomScheduleRoom2
    \/ GetRoomScheduleFind
    \/ ReadKeyEnsure
    \/ ReadKeyRet
    \/ CallReadKey
    \/ GetSmartPlug
    \/ GetSmartPlugLookup
    \/ CallGetDevice
    \/ CallGetDeviceRoom
    \/ CallGetRoomStatData
    \/ CallGetRoomSchedule
    \/ CallGetSmartPlug
    \/ CallGetHeatingRelayStatus
    \/ GetHeatingRelayStatus
    \/ GetHeatingRelayStatusLoop

Spec == Init /\ [][Next]_vars

\* the transmissions of single requests
NextTransport == CallRequest \/ TransportSend

SpecTransport == Init /\ [][NextTransport]_vars

-----------------------------------------------------------------------------
(* Two threads on one wiserHub object *)

\* wiserHub holds no lock: a second thread runs the same methods on the same
\* four attributes.  The thread that is not running is kept in other, and
\* Switch hands the processor over, which the interpreter may do between
\* any two steps.
Context ==
    [stack |-> stack, call |-> call, outcome |-> outcome, sent |-> sent,
     warnings |-> warnings, refreshes |-> refreshes, entry |-> entry]

Switch ==
    /\ stack' = other.stack
    /\ call' = other.call
    /\ outcome' = other.outcome
    /\ sent' = other.sent
    /\ warnings' = other.warnings
    /\ refreshes' = other.refreshes
    /\ entry' = other.entry
    /\ other' = Context
    /\ UNCHANGED cache

\* the thread that constructed the object polls the hub
RaceRefreshData ==
    /\ call.op \in {"__init__", "refreshData"}
    /\ CallRefreshData

\* the second thread reads room schedules
RaceGetRoomSchedule ==
    /\ call.op \in {"run", "getRoomSchedule"}
    /\ CallGetRoomSchedule

\* a hub in good order answers every GET with status 200 and a document of
\* the expected shape
HubInOrder ==
    /\ outcome = Running
    /\ At("refreshData", "network") =>
          wiserScheduleData # None /\ Has(wiserScheduleData, "Heating")
    /\ At("refreshData", "domain") => wiserNetworkData # None
    /\ At("refreshData", "getRooms") => wiserHubData # None

NextRace ==
    \/ RaceRefreshData
    \/ RaceGetRoomSchedule
    \/ Switch
    \/ RefreshSchedule /\ HubInOrder'
    \/ RefreshNetwork /\ HubInOrder'
    \/ RefreshDomain /\ HubInOrder'
    \/ RefreshGetRooms
    \/ RefreshIndex
    \/ RefreshLoop
    \/ RefreshMerge
    \/ CheckHubData
    \/ CheckHubDataAfter
    \/ GetRooms
    \/ GetRoomsRet
    \/ GetRoom
    \/ GetRoomLookup
    \/ GetRoomSchedule
    \/ GetRoomScheduleRoom1
    \/ GetRoomScheduleRoom2
    \/ GetRoomScheduleFind

SpecRace == Init /\ [][NextRace]_vars

\* one thread that refreshes, reads room schedules and also calls the three
\* update methods, which are public
NextUpdate ==
    \/ CallUpdateData
    \/ UpdateData
    \/ CallRefreshData
    \/ CallGetRoomSchedule
    \/ RefreshSchedule
    \/ RefreshNetwork
    \/ RefreshDomain
    \/ RefreshGetRooms
    \/ RefreshIndex
    \/ RefreshLoop
    \/ RefreshMerge
    \/ CheckHubData
    \/ CheckHubDataAfter
    \/ GetRooms
    \/ GetRoomsRet
    \/ GetRoom
    \/ GetRoomLookup
    \/ GetRoomSchedule
    \/ GetRoomScheduleRoom1
    \/ GetRoomScheduleRoom2
    \/ GetRoomScheduleFind

SpecUpdate == Init /\ [][NextUpdate]_vars

-----------------------------------------------------------------------------
(* Properties *)

Done == stack = <<>>
Last(seq) == seq[Len(seq)]
IsGet(q, url) == q.method = "GET" /\ q.url = url
IsPatch(q) == q.method = "PATCH"
Patches == SelectSeq(sent, IsPatch)
Count(url) == Cardinality({i \in DOMAIN sent : IsGet(sent[i], url)})

IsCancelBoost(q) ==
    /\ q.method = "PATCH"
    /\ q.url = <<"domain/Room/", call.roomId>>
    /\ q.body.RequestOverride.Type = "None"
    /\ q.body.RequestOverride.DurationMinutes = 0

IsCancel(q) == IsPatch(q) /\ Has(q.body, "RequestOverride")
                  /\ Has(q.body.RequestOverride, "DurationMinutes")
                  /\ IsCancelBoost(q)

NonBoostModes == {"auto", "AUTO", "Manual", "OFF"}
BoostModes == {"boost", "Boost"}

\* C1: setRoomMode with mode boost never sends the cancel-boost PATCH; with
\* auto, manual or off (any letter case) a mode-specific PATCH is only ever
\* sent after a cancel-boost PATCH to domain/Room/{id} that was answered
\* 200, a call that returns has sent exactly the cancel and then the mode
\* patch, and a failed cancel is the last request of the call, which raises.
C1_CancelBoostBeforeModePatch ==
    call.op = "setRoomMode" =>
      /\ call.mode \in BoostModes =>
           /\ \A i \in DOMAIN sent : ~IsCancel(sent[i])
           /\ outcome.state = "returned" => Len(Patches) = 1
      /\ call.mode \in NonBoostModes =>
           /\ \A j \in DOMAIN sent :
                (IsPatch(sent[j]) /\ ~IsCancel(sent[j])) =>
                   \E i \in 1..(j - 1) : IsCancel(sent[i]) /\ sent[i].ok
           /\ \A i \in DOMAIN sent :
                (IsCancel(sent[i]) /\ ~sent[i].ok) =>
                   i = Len(sent) /\ outcome.state = "raised"
           /\ outcome.state = "returned" =>
                /\ Len(Patches) = 2
                /\ IsCancel(Patches[1])
                /\ ~IsCancel(Patches[2])

\* a manual-mode call that loaded the cache, cancelled the boost and set the mode
C1_Witness ==
    /\ call.op = "setRoomMode"
    /\ call.mode = "Manual"
    /\ outcome.state = "returned"
    /\ Len(sent) > 2
    /\ IsCancel(sent[Len(sent) - 1])
    /\ ~IsCancel(Last(sent))

\* C2: one checkHubData call starts at most one refreshData when the domain
\* cache is empty and none when it is loaded, whatever the hub answers.
C2_AtMostOneRefresh ==
    call.op = "checkHubData" =>
      refreshes <= (IF entry.loaded THEN 0 ELSE 1)

\* C3: a checkHubData call that finds the domain cache empty and whose
\* requests were all answered 200, the domain document being null so that
\* the cache is still empty when the call ends, ends by raising
\* WiserHubDataNull.
C3_NullDocumentRaisesDataNull ==
    ( /\ call.op = "checkHubData"
      /\ Done
      /\ ~entry.loaded
      /\ wiserHubData = None
      /\ sent # <<>>
      /\ \A i \in DOMAIN sent : sent[i].ok )
    => outcome = Raised("WiserHubDataNull")

\* C4: one refreshData call issues at most three GETs: at most one to each of
\* schedules/, network/ and domain/.
C4_AtMostThreeGets ==
    call.op = "refreshData" =>
      /\ Len(sent) <= 3
      /\ Count(<<"schedules/">>) <= 1
      /\ Count(<<"network/">>) <= 1
      /\ Count(<<"domain/">>) <= 1

InRefresh == stack # <<>> /\ Top.fn = "refreshData"
Fetches(url) == Len(sent') = Len(sent) + 1 /\ IsGet(Last(sent'), url)

\* C5: in every step of refreshData, schedules/ (network/) is requested only
\* while the schedule (network) document is unset and a loaded schedule or
\* network document is left as it is, whereas the step that reaches
\* line 222 always requests domain/.
C5_ScheduleAndNetworkFetchedOnlyWhileUnset ==
    [][ InRefresh =>
          /\ Fetches(<<"schedules/">>) => wiserScheduleData = None
          /\ Fetches(<<"network/">>) => wiserNetworkData = None
          /\ wiserScheduleData # None => wiserScheduleData' = wiserScheduleData
          /\ wiserNetworkData # None => wiserNetworkData' = wiserNetworkData
          /\ Top.pc = "domain" => Fetches(<<"domain/">>) ]_vars

\* a refreshData call over loaded schedule and network documents that has
\* returned after one request, the one to domain/
C5_Witness ==
    /\ call.op = "refreshData"
    /\ outcome.state = "returned"
    /\ Len(sent) = 1
    /\ IsGet(sent[1], <<"domain/">>)
    /\ wiserScheduleData # None
    /\ wiserNetworkData # None

\* C6: when a call in which refreshData ran returns normally, the cached
\* domain document has a Schedule and it is the Heating entry of the cached
\* schedule document, also when the fetched document carried its own.
C6_ScheduleIsHeatingAfterRefresh ==
    (Done /\ refreshes > 0 /\ outcome.state = "returned") =>
      /\ wiserHubData # None
      /\ Has(wiserHubData, "Schedule")
      /\ wiserScheduleData # None
      /\ Has(wiserScheduleData, "Heating")
      /\ wiserHubData.Schedule = wiserScheduleData.Heating

\* refreshData has returned over the document that carried a Schedule
C6_Witness ==
    /\ call.op = "refreshData"
    /\ outcome.state = "returned"
    /\ Has(wiserHubData, "Room")
    /\ wiserHubData.Room = DomainMoved.Room
    /\ wiserHubData.Schedule # DomainMoved.Schedule

RECURSIVE DevicesOf(_)
\* the RoomStatId and SmartValveIds values of a rooms list
DevicesOf(rooms) ==
    IF rooms = <<>> THEN {}
    ELSE LET room == Head(rooms) IN
         (IF Has(room, "RoomStatId") THEN {room.RoomStatId} ELSE {})
         \cup (IF Has(room, "SmartValveIds")
               THEN {room.SmartValveIds[i] : i \in DOMAIN room.SmartValveIds}
               ELSE {})
         \cup DevicesOf(Tail(rooms))

\* C7: after a refreshData call that returns normally the keys of
\* device2roomMap are exactly the RoomStatId and SmartValveIds values of the
\* rooms of the cached domain document.
C7_IndexKeysAreCurrentDevices ==
    (call.op = "refreshData" /\ outcome.state = "returned"
       /\ Has(wiserHubData, "Room")) =>
      DOMAIN device2roomMap = DevicesOf(wiserHubData.Room)

RoomSet == {wiserHubData.Room[i] : i \in DOMAIN wiserHubData.Room}
WarningsFor(room) ==
    Cardinality({i \in DOMAIN warnings :
                    warnings[i] = [msg |-> "no devices", room |-> room.Name]})

\* C8: after a refreshData call that started from an empty index, fetched a
\* document with a rooms list and returned: every room's RoomStatId and each
\* of its SmartValveIds is mapped to that room's id and name, the index has
\* no other key, a room with neither field was warned about exactly once and
\* no other warning was emitted.
C8_IndexAndWarningsFromEmptyIndex ==
    ( /\ call.op = "refreshData"
      /\ outcome.state = "returned"
      /\ refreshes = 1
      /\ entry.map = EmptyMap
      /\ Has(wiserHubData, "Room") )
    =>
      /\ \A room \in RoomSet :
           LET info == [roomId |-> room.id, roomName |-> room.Name]
               stat == "RoomStatId" \in DOMAIN room
               valves == "SmartValveIds" \in DOMAIN room
           IN  /\ stat => /\ room.RoomStatId \in DOMAIN device2roomMap
                          /\ device2roomMap[room.RoomStatId] = info
               /\ valves => \A i \in DOMAIN room.SmartValveIds :
                              /\ room.SmartValveIds[i] \in DOMAIN device2roomMap
                              /\ device2roomMap[room.SmartValveIds[i]] = info
               /\ WarningsFor(room) = IF ~stat /\ ~valves THEN 1 ELSE 0
      /\ \A d \in DOMAIN device2roomMap :
           \E room \in RoomSet :
              \/ "RoomStatId" \in DOMAIN room /\ room.RoomStatId = d
              \/ /\ "SmartValveIds" \in DOMAIN room
                 /\ \E i \in DOMAIN room.SmartValveIds : room.SmartValveIds[i] = d
      /\ Len(warnings) =
           Cardinality({room \in RoomSet : "RoomStatId" \notin DOMAIN room
                                           /\ "SmartValveIds" \notin DOMAIN room})

\* the rooms list of the example: A -> 1, B and C -> 2, one warning for room 3
C8_Witness ==
    /\ call.op = "refreshData"
    /\ outcome.state = "returned"
    /\ refreshes = 1
    /\ entry.map = EmptyMap
    /\ Has(wiserHubData, "Room")
    /\ wiserHubData.Room = DomainFull.Room
    /\ DOMAIN device2roomMap = {"A", "B", "C"}
    /\ device2roomMap["C"].roomId = 2
    /\ Len(warnings) = 1

\* C9: a GET or PATCH answered 401 raises WiserHubAuthenticationException; a
\* GET answered 404, or a PATCH answered 404 or 405, raises
\* WiserHubRequestException.
C9_StatusClassifiedAsTypedError ==
    (call.op \in {"_makeGetRequest", "_makePatchRequest"}
       /\ call.wire.fault = "none") =>
      /\ call.wire.status = 401 =>
           outcome = Raised("WiserHubAuthenticationException")
      /\ call.wire.status = 404 =>
           outcome = Raised("WiserHubRequestException")
      /\ (call.op = "_makePatchRequest" /\ call.wire.status = 405) =>
           outcome = Raised("WiserHubRequestException")

\* C10: a GET or PATCH answered with a non-2xx status other than 401 and 404
\* (and, for PATCH, 405) raises WiserRESTException.
C10_OtherStatusIsRESTException ==
    (call.op \in {"_makeGetRequest", "_makePatchRequest"}
       /\ call.wire.fault = "none"
       /\ call.wire.status \in {400, 403, 500}) =>
      outcome = Raised("WiserRESTException")

\* the step handed a GET to the session and it ended in a fault
FaultedGet ==
    /\ sent' # sent
    /\ sent' # <<>>
    /\ Last(sent').method = "GET"
    /\ Last(sent').fault \in Faults

\* C11: a step in which a GET ends in a connection failure or a timeout,
\* made by _makeGetRequest on its own or inside refreshData (from whichever
\* public call), ends the call with WiserHubTimeoutException and leaves the
\* three cached documents and the device index as they were.
C11_FaultedGetRaisesTimeout ==
    [][ FaultedGet =>
          /\ outcome' = Raised("WiserHubTimeoutException")
          /\ stack' = <<>>
          /\ cache' = cache ]_vars

\* refreshData fetched the schedule and network documents and then ran into
\* a fault on domain/: the domain cache is still empty
C11_Witness ==
    /\ call.op = "refreshData"
    /\ Len(sent) = 3
    /\ IsGet(sent[3], <<"domain/">>)
    /\ sent[3].fault = "ConnectionError"
    /\ outcome = Raised("WiserHubTimeoutException")
    /\ wiserHubData = None
    /\ wiserScheduleData # None

MutatorOps ==
    {"setRoomTemperature", "setRoomMode", "setHomeAwayMode", "setHotwaterMode",
     "setSystemSwitch", "setRoomSchedule", "setSmartPlugState",
     "setSmartPlugMode"}

\* C12: a mutator whose last PATCH was answered, with a status other than
\* 200, has raised WiserRESTException.
C12_NonOkPatchRaisesRESTException ==
    ( /\ call.op \in MutatorOps
      /\ Done
      /\ sent # <<>>
      /\ IsPatch(Last(sent))
      /\ Last(sent).fault = "none"
      /\ ~Last(sent).ok )
    => outcome = Raised("WiserRESTException")

\* a temperature in tenths outside 50..300 that is not the off value -200
OutOfRange(temp) ==
    LET t == temp.deg * 10 + temp.tenth IN
    t # -200 /\ (t < 50 \/ t > 300)

\* the inputs a mutator has to reject
InvalidInput(c) ==
    CASE c.op = "setRoomTemperature" -> OutOfRange(c.temperature)
      [] c.op = "setHomeAwayMode" ->
           \/ c.mode \notin {"HOME", "AWAY"}
           \/ c.mode = "AWAY" /\ (c.temperature = None
                                     \/ OutOfRange(c.temperature))
      [] c.op = "setRoomMode" ->
           \/ c.mode \notin NonBoostModes \cup BoostModes
           \/ /\ c.mode \in BoostModes
              /\ LET t == c.boost_temp.deg * 10 + c.boost_temp.tenth IN
                 t < 50 \/ t > 300
      [] c.op = "setHotwaterMode" -> c.mode \notin {"on", "OFF", "AUTO"}
      [] c.op = "setSmartPlugState" -> c.smartPlugState \notin {"on", "Off"}
      [] c.op = "setSmartPlugMode" -> c.smartPlugMode \notin {"auto", "Manual"}
      [] OTHER -> FALSE

\* C13: a mutator called with an input it has to reject (a temperature, AWAY
\* temperature or boost temperature out of range, an unknown room mode,
\* hot-water mode, home/away mode, smart-plug state or smart-plug mode)
\* issues no request, starts no refresh, and ends with ValueError.
C13_InvalidInputRaisesBeforeAnyRequest ==
    (call.op \in MutatorOps /\ InvalidInput(call)) =>
      /\ sent = <<>>
      /\ refreshes = 0
      /\ Done => outcome = Raised("ValueError")

\* AWAY with 31.0 C on an empty cache: rejected, nothing sent
C13_Witness ==
    /\ call.op = "setHomeAwayMode"
    /\ call.mode = "AWAY"
    /\ call.temperature = Celsius(31, 0)
    /\ outcome = Raised("ValueError")
    /\ sent = <<>>
    /\ wiserHubData = None

\* C14: in every step of a mutator that was called on a loaded domain cache
\* the three cached documents and the device index stay as they are, the
\* domain cache stays loaded (an accessor called next does not refresh) and
\* every request of the call is a PATCH.
C14_MutatorsLeaveLoadedCacheAlone ==
    [][ (call'.op \in MutatorOps /\ entry'.loaded) =>
          /\ cache' = cache
          /\ wiserHubData' # None
          /\ \A i \in DOMAIN sent' : sent'[i].method = "PATCH" ]_vars

\* setHotwaterMode on a loaded cache has patched the hot water and returned
C14_Witness ==
    /\ call.op = "setHotwaterMode"
    /\ entry.loaded
    /\ outcome.state = "returned"
    /\ Len(sent) = 1
    /\ sent[1].url = <<"HotWater/", 2, "/">>
    /\ sent[1].ok

AccessorOps ==
    {"getHubData", "getRooms", "getRoom", "getSystem", "getHotwater",
     "getHeatingChannels", "getDevices", "getDevice", "getDeviceRoom",
     "getRoomStatData", "getRoomSchedule", "getSmartPlugs", "getSmartPlug",
     "getSmartPlugState", "getSmartPlugMode"}

\* the frame on top belongs to an accessor that is past its first statement
PastEnsure == stack # <<>> /\ Top.fn \in AccessorOps /\ Top.pc # "start"

\* C15: an accessor that is past its first statement, the checkHubData()
\* call, finds the domain cache set, wherever it was called from; no call
\* ends with the AttributeError of a read of the unset cache; and when a
\* public accessor call found the cache unset, a refreshData has run to its
\* end before the accessor's own read: domain/ was fetched and answered 200
\* and the cached document has its Schedule merged.
C15_AccessorsReadLoadedCache ==
    /\ PastEnsure => wiserHubData # None
    /\ Done => outcome.exc # "AttributeError"
    /\ ( /\ call.op \in AccessorOps
         /\ PastEnsure
         /\ Len(stack) = 1
         /\ ~entry.loaded )
       => /\ refreshes >= 1
          /\ \E i \in DOMAIN sent : IsGet(sent[i], <<"domain/">>) /\ sent[i].ok
          /\ Has(wiserHubData, "Schedule")

\* getDevice on an empty cache has refreshed once and found its device
C15_Witness ==
    /\ call.op = "getDevice"
    /\ ~entry.loaded
    /\ outcome.state = "returned"
    /\ refreshes = 1
    /\ Len(sent) = 3

\* C18: getHeatingRelayStatus called on an empty domain cache issues no GET
\* (and starts no refresh).
C18_RelayStatusIssuesNoGet ==
    (call.op = "getHeatingRelayStatus" /\ ~entry.loaded) =>
      /\ sent = <<>>
      /\ refreshes = 0

\* C18, amended: getHeatingRelayStatus has no checkHubData() of its own, but
\* its first call, getHeatingChannels(), has: called on an empty domain
\* cache it ends only after a refreshData was started and a GET was issued,
\* and it returns only with the cache loaded by that refresh; called on a
\* loaded cache it issues no request.
C18_RelayStatusRefreshesEmptyCache ==
    call.op = "getHeatingRelayStatus" =>
      /\ (Done /\ ~entry.loaded) =>
           /\ refreshes >= 1
           /\ sent # <<>>
           /\ sent[1].method = "GET"
           /\ outcome.state = "returned" =>
                /\ wiserHubData # None
                /\ \E i \in DOMAIN sent :
                     IsGet(sent[i], <<"domain/">>) /\ sent[i].ok
      /\ entry.loaded => sent = <<>> /\ refreshes = 0

\* getHeatingRelayStatus on an empty cache has returned after three GETs
C18_Witness ==
    /\ call.op = "getHeatingRelayStatus"
    /\ ~entry.loaded
    /\ outcome.state = "returned"
    /\ Len(sent) = 3
    /\ IsGet(sent[3], <<"domain/">>)

LookupOps == {"getRoom", "getDevice", "getRoomStatData", "getSmartPlug"}

\* the list a lookup scans and the id it looks for
ListKey(c) ==
    CASE c.op = "getRoom" -> "Room"
      [] c.op = "getDevice" -> "Device"
      [] c.op = "getRoomStatData" -> "RoomStat"
      [] c.op = "getSmartPlug" -> "SmartPlug"

WantedId(c) ==
    CASE c.op = "getRoom" -> c.roomId
      [] c.op \in {"getDevice", "getRoomStatData"} -> c.deviceId
      [] c.op = "getSmartPlug" -> c.smartPlugId

ListPresent == Has(wiserHubData, ListKey(call))

IdListed ==
    \E i \in DOMAIN wiserHubData[ListKey(call)] :
       wiserHubData[ListKey(call)][i].id = WantedId(call)

\* a lookup by id called on a loaded cache has ended
LookupDone == call.op \in LookupOps /\ entry.loaded /\ Done

\* C19: a lookup by id over a loaded cache raises WiserNotFound when its
\* list is there without the id, and an error other than WiserNotFound when
\* the list is absent from the document.
C19_AbsentListIsDistinctError ==
    LookupDone =>
      /\ (ListPresent /\ ~IdListed) => outcome = Raised("WiserNotFound")
      /\ ~ListPresent => /\ outcome.state = "raised"
                         /\ outcome.exc # "WiserNotFound"

\* C19, amended: a lookup by id over a loaded cache returns when its list
\* has the id and raises WiserNotFound when the list is there without it;
\* when the list is absent (or null), getRoom and getDevice raise
\* WiserNoRoomsFound, getRoomStatData raises KeyError for an absent RoomStat
\* key and WiserNotFound for a null one, and getSmartPlug raises
\* WiserNotFound, the error it raises for an unknown id.
C19_LookupErrorsPerAccessor ==
    LookupDone =>
      /\ (ListPresent /\ IdListed) => outcome = Returned
      /\ (ListPresent /\ ~IdListed) => outcome = Raised("WiserNotFound")
      /\ ~ListPresent =>
           outcome = Raised(
             CASE call.op \in {"getRoom", "getDevice"} -> "WiserNoRoomsFound"
               [] call.op = "getRoomStatData" ->
                    IF IsNull(wiserHubData, "RoomStat")
                    THEN "WiserNotFound" ELSE "KeyError"
               [] call.op = "getSmartPlug" -> "WiserNotFound")

\* getSmartPlug over a loaded document without a SmartPlug list
C19_Witness ==
    /\ call.op = "getSmartPlug"
    /\ entry.loaded
    /\ ~Has(wiserHubData, "SmartPlug")
    /\ outcome = Raised("WiserNotFound")

\* the room of the call in the cached document
CalledRoom == FindById(wiserHubData.Room, call.roomId)[1]

\* C20: every mode patch of a setRoomMode call with mode manual (the PATCH
\* that is not the cancel-boost one) sets Mode Manual with a manual override
\* whose SetPoint is the cached ScheduledSetPoint of the room when that is
\* at least 50 tenths, and 50 when it is lower.
C20_ManualSetPointClamped ==
    (call.op = "setRoomMode" /\ call.mode = "Manual") =>
      \A i \in DOMAIN sent :
        (IsPatch(sent[i]) /\ ~IsCancel(sent[i])) =>
          /\ sent[i].url = <<"domain/Room/", call.roomId>>
          /\ sent[i].body.Mode = "Manual"
          /\ sent[i].body.RequestOverride.Type = "Manual"
          /\ sent[i].body.RequestOverride.SetPoint =
               IF CalledRoom.ScheduledSetPoint >= 50
               THEN CalledRoom.ScheduledSetPoint
               ELSE 50

\* manual mode for the room scheduled at 3.0 C: the override is sent at 5.0 C
C20_Witness ==
    /\ call.op = "setRoomMode"
    /\ call.mode = "Manual"
    /\ outcome.state = "returned"
    /\ CalledRoom.ScheduledSetPoint = 30
    /\ Last(sent).body.RequestOverride.SetPoint = 50

\* transmission i of the request was followed by another one
Retransmitted(i) == i < Len(sent)

Unmerged == wiserHubData \in DomainBodies \ {None}

\* a refreshData activation of the thread is past line 222 and has not
\* returned
MidRefresh(st) ==
    \E i \in DOMAIN st :
      st[i].fn = "refreshData"
        /\ st[i].pc \in {"getRooms", "index", "loop", "merge"}

\* C16: the object has no lock, so with two threads a partially updated
\* cache can be read.  With a hub in good order the cached domain document
\* is in its unmerged form (replaced by line 222, Schedule not yet
\* overwritten by line 255) only while some thread is inside refreshData
\* between those lines; the witness is the state in which the other thread
\* has then read it.
C16_UnmergedOnlyDuringRefresh ==
    Unmerged => MidRefresh(stack) \/ MidRefresh(other.stack)

\* the reading thread passed checkHubData without a refresh of its own and
\* its getRoomSchedule failed on the missing Schedule, the index is still
\* the empty one, and the polling thread is suspended right after line 222
C16_Witness ==
    /\ call.op = "getRoomSchedule" /\ call.roomId = 1
    /\ Done /\ outcome = Raised("TypeError") /\ refreshes = 0
    /\ wiserHubData = DomainFull
    /\ device2roomMap = EmptyMap
    /\ other.call.op = "refreshData"
    /\ other.stack # <<>>
    /\ other.stack[Len(other.stack)].fn = "refreshData"
    /\ other.stack[Len(other.stack)].pc = "getRooms"

\* C21: the range check accepts a temperature exactly when it is the off
\* value -20 or lies in 5..30, bounds included; setRoomTemperature sends
\* nothing and raises ValueError for a temperature that is not accepted, and
\* for an accepted one it sends exactly one request, the PATCH to
\* domain/Room/{id} with the Manual override and the temperature in tenths.
C21_RangeCheckDecidesThePatch ==
    /\ \A t \in Temperatures : checkTempRange(t) <=> ~OutOfRange(t)
    /\ call.op = "setRoomTemperature" =>
         IF OutOfRange(call.temperature)
         THEN /\ sent = <<>>
              /\ Done => outcome = Raised("ValueError")
         ELSE /\ Done => Len(sent) = 1
              /\ \A i \in DOMAIN sent :
                   /\ IsPatch(sent[i])
                   /\ sent[i].url = RoomUrl(call.roomId)
                   /\ sent[i].body =
                        [RequestOverride |->
                           [Type |-> "Manual",
                            SetPoint |-> call.temperature.deg * 10
                                           + call.temperature.tenth]]

\* 30.0, the upper bound, was accepted and patched as 300
C21_Witness ==
    /\ call.op = "setRoomTemperature"
    /\ call.temperature = Celsius(30, 0)
    /\ outcome = Returned
    /\ Len(sent) = 1
    /\ sent[1].body.RequestOverride.SetPoint = 300

\* the PATCH body the hot-water mode stands for, letter case aside
HotwaterBody(mode) ==
    CASE mode \in {"on", "ON", "On"} ->
           [RequestOverride |-> [Type |-> "Manual", SetPoint |-> 1100]]
      [] mode \in {"off", "OFF", "Off"} ->
           [RequestOverride |-> [Type |-> "Manual", SetPoint |-> -200]]
      [] mode \in {"auto", "AUTO", "Auto"} ->
           [RequestOverride |-> [Type |-> "None", Mode |-> "Auto"]]
      [] OTHER -> None

\* C22: setHotwaterMode with a mode other than on, off or auto (in any
\* letter case) sends nothing and raises ValueError; with one of the three
\* it sends at most one PATCH, to HotWater/{id of the cached hot-water
\* control}/, whose body is the fixed body of the mode (auto: Type None and
\* Mode Auto; on: Manual with SetPoint 1100; off: Manual with SetPoint
\* -200), and a call that returns has sent it.
C22_HotwaterModeBodies ==
    call.op = "setHotwaterMode" =>
      IF HotwaterBody(call.mode) = None
      THEN /\ sent = <<>>
           /\ Done => outcome = Raised("ValueError")
      ELSE /\ Len(Patches) <= 1
           /\ \A i \in DOMAIN sent :
                IsPatch(sent[i]) =>
                  /\ i = Len(sent)
                  /\ sent[i].url = <<"HotWater/", wiserHubData.HotWater[1].id, "/">>
                  /\ sent[i].body = HotwaterBody(call.mode)
           /\ outcome = Returned => Len(Patches) = 1

\* OFF in capitals on an empty cache: refreshed, then patched with -200
C22_Witness ==
    /\ call.op = "setHotwaterMode"
    /\ call.mode = "OFF"
    /\ ~entry.loaded
    /\ outcome = Returned
    /\ Last(sent).url = <<"HotWater/", 2, "/">>
    /\ Last(sent).body = [RequestOverride |-> [Type |-> "Manual", SetPoint |-> -200]]

\* the cached room with this id, <<>> if the cache has none
CachedRoom(roomId) ==
    IF wiserHubData # None /\ Has(wiserHubData, "Room")
    THEN FindById(wiserHubData.Room, roomId)
    ELSE <<>>

\* the cached schedule of the room with this id, <<>> if there is none
CachedSchedule(roomId) ==
    IF CachedRoom(roomId) # <<>> /\ Has(CachedRoom(roomId)[1], "ScheduleId")
         /\ Has(wiserHubData, "Schedule")
    THEN FindById(wiserHubData.Schedule, CachedRoom(roomId)[1].ScheduleId)
    ELSE <<>>

\* C23: setRoomSchedule on a cached room without a ScheduleId sends no PATCH
\* and does not return; called on a loaded cache it ends with WiserNotFound.
\* Every PATCH of copyRoomSchedule(from, to) goes to
\* schedules/Heating/{ScheduleId of the room to} and its body is the whole
\* schedule object cached for the room from; there is at most one, and
\* exactly one when the call returns or was made on a loaded cache in which
\* both rooms have schedules.
C23_ScheduleReplaceAndCopy ==
    /\ ( /\ call.op = "setRoomSchedule"
         /\ CachedRoom(call.roomId) # <<>>
         /\ ~Has(CachedRoom(call.roomId)[1], "ScheduleId") ) =>
           /\ Patches = <<>>
           /\ outcome # Returned
           /\ (Done /\ entry.loaded) => outcome = Raised("WiserNotFound")
    /\ call.op = "copyRoomSchedule" =>
         /\ Len(Patches) <= 1
         /\ \A i \in DOMAIN sent :
              IsPatch(sent[i]) =>
                /\ CachedSchedule(call.fromRoomId) # <<>>
                /\ CachedRoom(call.toRoomId) # <<>>
                /\ Has(CachedRoom(call.toRoomId)[1], "ScheduleId")
                /\ sent[i].url = <<"schedules/Heating/",
                                   CachedRoom(call.toRoomId)[1].ScheduleId>>
                /\ sent[i].body = CachedSchedule(call.fromRoomId)[1]
         /\ outcome = Returned => Len(Patches) = 1
         /\ ( /\ Done /\ entry.loaded
              /\ CachedSchedule(call.fromRoomId) # <<>>
              /\ CachedRoom(call.toRoomId) # <<>>
              /\ Has(CachedRoom(call.toRoomId)[1], "ScheduleId") ) =>
                Len(Patches) = 1

\* the schedule of room 1 (id 11) copied to room 2, whose schedule is 12
C23_Witness ==
    /\ call.op = "copyRoomSchedule"
    /\ call.fromRoomId = 1 /\ call.toRoomId = 2
    /\ outcome = Returned
    /\ Len(sent) = 1
    /\ sent[1].url = <<"schedules/Heating/", 12>>
    /\ sent[1].body = [id |-> 11, Name |-> "weekday"]

\* C24: getDeviceRoom called on a loaded cache with a filled index, for a
\* device id the index does not hold, returns (None) and does not raise.
C24_UnknownDeviceReturnsNone ==
    ( /\ call.op = "getDeviceRoom"
      /\ Done
      /\ entry.loaded /\ refreshes = 0
      /\ call.deviceId \notin DOMAIN device2roomMap ) =>
        outcome = Returned

\* C25: between public calls a loaded domain cache holds a Schedule equal to
\* the Heating entry of the schedule cache.
C25_LoadedCacheHoldsMergedSchedule ==
    (Done /\ wiserHubData # None) =>
      /\ Has(wiserHubData, "Schedule")
      /\ wiserScheduleData # None
      /\ Has(wiserScheduleData, "Heating")
      /\ wiserHubData.Schedule = wiserScheduleData.Heating

\* the public call ended because its last request, a GET, raised
FailedOnGet ==
    /\ Done
    /\ outcome.state = "raised"
    /\ sent # <<>>
    /\ Last(sent).method = "GET"
    /\ ~Last(sent).ok

\* the document is the one cached at the start of the call, or it was unset
\* then and a GET of this call fetched it
KeptOrFetched(now, before, url) ==
    \/ now = before
    \/ before = None /\ \E i \in DOMAIN sent : IsGet(sent[i], url) /\ sent[i].ok

\* C26: a refreshData call that failed because one of its GETs raised has
\* left the domain document and the device index as they were when it was
\* called, and has changed the schedule or network document only if it was
\* unset and fetched in this call.
C26_FailedRefreshKeepsCache ==
    (call.op = "refreshData" /\ FailedOnGet) =>
      /\ wiserHubData = entry.cache[1]
      /\ device2roomMap = entry.cache[4]
      /\ KeptOrFetched(wiserNetworkData, entry.cache[2], <<"network/">>)
      /\ KeptOrFetched(wiserScheduleData, entry.cache[3], <<"schedules/">>)

\* the override set point of a PATCH body, <<>> if it has none
SetPointOf(body) ==
    IF Has(body, "RequestOverride") /\ Has(body.RequestOverride, "SetPoint")
    THEN <<body.RequestOverride.SetPoint>>
    ELSE <<>>

\* C27: every SetPoint of a manual override that setRoomTemperature or
\* setRoomMode (boost, manual, off) sends is -200 or lies in 50..300.  The
\* cancel-boost request, an override of Type None, is not counted.
C27_SetPointsWithinRange ==
    call.op \in {"setRoomTemperature", "setRoomMode"} =>
      \A i \in DOMAIN sent :
        ( /\ IsPatch(sent[i])
          /\ SetPointOf(sent[i].body) # <<>>
          /\ sent[i].body.RequestOverride.Type = "Manual" ) =>
          LET p == SetPointOf(sent[i].body)[1] IN
          p = -200 \/ (p >= 50 /\ p <= 300)

\* C27 (as the code has it): every SetPoint of a manual override that
\* setRoomTemperature or setRoomMode sends is -200 or at least 50; it is at
\* most 300 except in mode manual, where it is the cached ScheduledSetPoint
\* of the room whenever that exceeds 50, with no upper limit.
C27_SetPointsBoundedBelow ==
    call.op \in {"setRoomTemperature", "setRoomMode"} =>
      \A i \in DOMAIN sent :
        ( /\ IsPatch(sent[i])
          /\ SetPointOf(sent[i].body) # <<>>
          /\ sent[i].body.RequestOverride.Type = "Manual" ) =>
          LET p == SetPointOf(sent[i].body)[1] IN
          \/ p = -200
          \/ p >= 50 /\ p <= 300
          \/ /\ call.op = "setRoomMode" /\ call.mode = "Manual"
             /\ p > 300
             /\ p = CalledRoom.ScheduledSetPoint

\* manual mode for the room scheduled at 35.0 C: the override is sent at 350
C27_Witness ==
    /\ call.op = "setRoomMode"
    /\ call.mode = "Manual"
    /\ call.roomId = 2
    /\ outcome = Returned
    /\ Len(sent) = 2
    /\ sent[2].body.RequestOverride.SetPoint = 350

====
